---- MODULE Spec2Model ----
(***************************************************************************)
(* Authentication session manager of NextBI (frontend).                    *)
(*                                                                         *)
(* The browser runs one page at a time.  A page load mounts the            *)
(* AuthProvider (the session controller) and App; every handler below is   *)
(* one synchronous segment of JavaScript between two awaits.  Promise      *)
(* continuations that follow each other without an external call in        *)
(* between (exchangeAzureToken -> loginWithAzure -> exchangeTokenForJWT,   *)
(* devLogin -> its caller) run in the same microtask checkpoint and are    *)
(* one action.  localStorage, the provider's account cache and a pending   *)
(* redirect response survive a page load; everything else is reset.        *)
(***************************************************************************)
EXTENDS Integers, Sequences, FiniteSets, TLC

----------------------------------------------------------------------------
(* Bounds of the model *)

\* exchanges started by the LOGIN_SUCCESS callback that are in flight at once
MaxCallbacks == 1
\* distinct session tokens the backend may issue
NumTokens == 1

----------------------------------------------------------------------------
(* Values *)

\* localStorage.getItem of a missing key, and a null React state value
Null == "null"
\* JavaScript undefined (a field missing from a JSON response)
Undefined == "undefined"

TOKEN_KEY == "nextbi_auth_token"
USER_KEY == "nextbi_user_data"
METHOD_KEY == "nextbi_auth_method"
Keys == {TOKEN_KEY, USER_KEY, METHOD_KEY}

Tokens == {"t" \o ToString(i) : i \in 1..NumTokens}
\* the canonical user record the backend returns
BackendUser == "user:backend"
\* the user record exchangeAzureToken builds from the provider account
AccountUser == "user:account"
Users == {BackendUser, AccountUser}

\* JSON.stringify of a user value: undefined is stored by localStorage.setItem
\* as the string "undefined"
JSONStringify(u) == IF u = Undefined THEN "undefined" ELSE "json:" \o u

\* JSON.parse: the inverse on serialized records, a SyntaxError (modelled as
\* the value "throw") on anything else
JSONParse(s) == IF \E u \in Users : JSONStringify(u) = s THEN CHOOSE u \in Users : JSONStringify(u) = s ELSE "throw"

----------------------------------------------------------------------------
(* Token store: authService.ts over localStorage (ls is the storage map) *)

getToken(ls) == ls[TOKEN_KEY]

setToken(ls, token) == [ls EXCEPT ![TOKEN_KEY] = token]

getUser(ls) == IF ls[USER_KEY] # Null THEN (IF JSONParse(ls[USER_KEY]) = "throw" THEN Null ELSE JSONParse(ls[USER_KEY])) ELSE Null

\* mutant of setUser: the record is stored without JSON.stringify
setUser_Raw(ls, user) == [ls EXCEPT ![USER_KEY] = user]

setUser(ls, user) == [ls EXCEPT ![USER_KEY] = JSONStringify(user)]

\* mutant of clearAuthData: the user record is left behind
clearAuthData_TokenOnly(ls) == [ls EXCEPT ![TOKEN_KEY] = Null]

clearAuthData(ls) == [ls EXCEPT ![TOKEN_KEY] = Null, ![USER_KEY] = Null]

\* loginService.getStoredSession: the persisted session, nothing without a token
getStoredSession(ls) == getToken(ls) # Null

\* the store holds a session: a token and a readable user record
HoldsSession(ls) == getToken(ls) # Null /\ getUser(ls) # Null

EmptyStorage == [k \in Keys |-> Null]

\* what a page load finds: is there a token, which user record, and does the
\* URL carry the response of a redirect login
Loaded(ls, response) == [token |-> getToken(ls) # Null, user |-> getUser(ls), redirect |-> response]

----------------------------------------------------------------------------
(* Backend responses to POST /api/auth/dev and POST /api/auth/azure *)

\* net = TRUE: the request failed (axios rejects); otherwise the JSON body
NetworkError == [net |-> TRUE, success |-> FALSE, token |-> Null, user |-> Undefined]
Rejected == [net |-> FALSE, success |-> FALSE, token |-> Null, user |-> Undefined]
NoToken == [net |-> FALSE, success |-> TRUE, token |-> Null, user |-> BackendUser]
Granted == {[net |-> FALSE, success |-> TRUE, token |-> t, user |-> u] : t \in Tokens, u \in {BackendUser, Undefined}}
Responses == {NetworkError, Rejected, NoToken} \cup Granted

\* response.data.success && response.data.data.token
HasToken(resp) == ~resp.net /\ resp.success /\ resp.token # Null

----------------------------------------------------------------------------
(* State *)

VARIABLES
  devFlag,         \* REACT_APP_DEV_AUTH === "true"
  localHost,       \* window.location.hostname is localhost or 127.0.0.1
  localStorage,    \* durable key/value storage
  accounts,        \* the provider client's cache holds an account
  ctx,             \* AuthProvider's React state
  initPc,          \* position of the first run of initializeMsal
  rerun,           \* the startup effect has run again for a changed initializeMsal
  appPc,           \* position of App's mount effect
  loginPc,         \* position of login()
  logoutPc,        \* position of logout()
  tokenPc,         \* position of getAccessToken()
  callbacks,       \* exchanges in flight that the LOGIN_SUCCESS callback started
  posts,           \* history: exchange requests sent on this page by the startup paths, by caller
  lastExchange,    \* observation: what the exchange call that returned in the last step did
  atLoad,          \* history: the token and user the store held, and the redirect response the URL carried, when the page loaded; kept until startup resolution has ended
  resolved,        \* observation: the outcome, when the last step ended startup resolution
  signOut,         \* observation: the provider sign-out, when the last step was a step of logout()
  location,        \* observation: the value the last step assigned to window.location.href
  accessToken      \* observation: how getAccessToken() ended, when the last step ended it

persistent == <<devFlag, localHost, localStorage, accounts>>
page == <<ctx, initPc, rerun, appPc, loginPc, logoutPc, tokenPc, callbacks>>
history == <<posts, atLoad>>
observed == <<lastExchange, resolved, signOut, location, accessToken>>
vars == <<persistent, page, history, observed>>

\* the two callers that exchange during startup: initializeMsal and App's effect
Callers == {"startup", "app"}

\* Error messages the controller sets
ErrDevLogin == "Development login failed"
ErrBackend == "Failed to authenticate with backend."
ErrInit == "Failed to initialize authentication."
ErrNotInitialized == "Authentication not initialized yet. Please wait a moment."
ErrNoAccount == "No account information returned."
ErrLoginFailed == "Login failed."

\* useState initial values of AuthProvider
InitialCtx == [isAuthenticated |-> FALSE, userData |-> Null, error |-> Null, loading |-> TRUE, msalInstance |-> FALSE, msalInitialized |-> FALSE]

\* isDevAuthEnabled(): the flag, or a local hostname
isDevAuthEnabled == devFlag \/ localHost

\* App.tsx DEV_AUTH: the flag alone
DEV_AUTH == devFlag

----------------------------------------------------------------------------
(* Change notification and exchanges *)

\* mutant of handler: authenticated whenever a token is stored
handler_TokenOnly(ls, c) == [c EXCEPT !.userData = getUser(ls), !.isAuthenticated = getToken(ls) # Null]

\* the 'nextbi:auth-changed' listener of AuthProvider: re-reads the store
handler(ls, c) == IF getUser(ls) # Null THEN [c EXCEPT !.userData = getUser(ls), !.isAuthenticated = TRUE, !.error = Null] ELSE [c EXCEPT !.userData = Null, !.isAuthenticated = FALSE]

\* mutant of devLogin: a failed exchange wipes the store
devLogin_ClearOnFailure(ls, c, resp) ==
  IF HasToken(resp)
  THEN LET stored == setUser(setToken(ls, resp.token), resp.user)
       IN [ls |-> stored, ctx |-> handler(stored, c), success |-> TRUE, user |-> resp.user, notified |-> 1]
  ELSE [ls |-> clearAuthData(ls), ctx |-> c, success |-> FALSE, user |-> Undefined, notified |-> 0]

\* devLogin once POST /api/auth/dev has answered: the store, the controller
\* state after the synchronous dispatch, the result and the events dispatched
devLogin(ls, c, resp) ==
  IF HasToken(resp)
  THEN LET stored == setUser(setToken(ls, resp.token), resp.user)
       IN [ls |-> stored, ctx |-> handler(stored, c), success |-> TRUE, user |-> resp.user, notified |-> 1]
  ELSE [ls |-> ls, ctx |-> c, success |-> FALSE, user |-> Undefined, notified |-> 0]

\* exchangeAzureToken once POST /api/auth/azure has answered: returns the
\* token (ok) after writing the store, or throws
exchangeAzureToken(ls, resp) ==
  IF HasToken(resp)
  THEN LET userData == IF resp.user # Undefined THEN resp.user ELSE AccountUser
       IN [ls |-> setUser(setToken(ls, resp.token), userData), ok |-> TRUE, notified |-> 0]
  ELSE [ls |-> ls, ok |-> FALSE, notified |-> 0]

\* loginService.loginWithAzure: the provider-identity exchange as the
\* controller calls it; wraps exchangeAzureToken and reports the stored user
loginWithAzure(ls, resp) ==
  LET ex == exchangeAzureToken(ls, resp)
  IN [ls |-> ex.ls, success |-> ex.ok, user |-> IF ex.ok THEN getUser(ex.ls) ELSE Undefined, notified |-> ex.notified]

\* exchangeTokenForJWT after loginWithAzure has settled; nav is the value
\* assigned to window.location.href, Null when there is no assignment
exchangeTokenForJWT(ls, c, resp) ==
  LET result == loginWithAzure(ls, resp)
  IN IF result.success
     THEN [ls |-> [result.ls EXCEPT ![METHOD_KEY] = "msal"], ctx |-> [c EXCEPT !.userData = result.user, !.isAuthenticated = TRUE, !.error = Null], nav |-> "/", success |-> TRUE, notified |-> result.notified]
     ELSE [ls |-> result.ls, ctx |-> [c EXCEPT !.error = ErrBackend], nav |-> Null, success |-> FALSE, notified |-> result.notified]

\* what the change listener set, when the exchange call notified it
NotHeard == [ran |-> FALSE, isAuthenticated |-> FALSE, userData |-> Null]

Heard(c) == [ran |-> TRUE, isAuthenticated |-> c.isAuthenticated, userData |-> c.userData]

\* an exchange call at the moment it returns to its caller; c is the
\* controller state the call leaves
Exchanged(endpoint, resp, after, success, notified, c) == [endpoint |-> endpoint, success |-> success, stored |-> (HasToken(resp) /\ getToken(after) = resp.token /\ after[USER_KEY] # Null), notified |-> notified, heard |-> IF notified > 0 THEN Heard(c) ELSE NotHeard]

NoExchange == [endpoint |-> "none", success |-> FALSE, stored |-> FALSE, notified |-> 0, heard |-> NotHeard]

\* the session state a finished startup resolution leaves
Resolution(path, c) == [path |-> path, isAuthenticated |-> c.isAuthenticated, userData |-> c.userData, error |-> c.error, loading |-> c.loading]

Unresolved == [path |-> "pending", isAuthenticated |-> FALSE, userData |-> Null, error |-> Null, loading |-> TRUE]

\* access tokens the provider client hands out
SilentToken == "at:silent"
PopupToken == "at:popup"

\* getAccessToken() at its end: the value its promise resolved with, or a
\* rejection; silent is how acquireTokenSilent settled when this step saw it
Returned(token, silent) == [outcome |-> "returned", token |-> token, silent |-> silent]

Threw == [outcome |-> "threw", token |-> Null, silent |-> "none"]

NoAccessToken == [outcome |-> "none", token |-> Null, silent |-> "none"]

----------------------------------------------------------------------------
(* Page load *)

\* the load record is kept while startup resolution runs and through the
\* step that ends it
atLoadKept == IF initPc = "done" THEN Loaded(EmptyStorage, FALSE) ELSE atLoad

\* a freshly loaded page: React state at its initial values, no task started
FreshPage ==
  /\ ctx' = InitialCtx
  /\ initPc' = "mount"
  /\ rerun' = FALSE
  /\ appPc' = "mount"
  /\ loginPc' = "idle"
  /\ logoutPc' = "idle"
  /\ tokenPc' = "idle"
  /\ accessToken' = NoAccessToken
  /\ callbacks' = 0
  /\ location' = Null
  /\ posts' = [c \in Callers |-> 0]
  /\ lastExchange' = NoExchange
  /\ resolved' = Unresolved
  /\ signOut' = "none"

\* the first visit: empty storage, nothing cached by the provider client
Init ==
  /\ devFlag \in BOOLEAN
  /\ localHost \in BOOLEAN
  /\ localStorage = EmptyStorage
  /\ accounts = FALSE
  /\ ctx = InitialCtx
  /\ initPc = "mount"
  /\ rerun = FALSE
  /\ appPc = "mount"
  /\ loginPc = "idle"
  /\ logoutPc = "idle"
  /\ tokenPc = "idle"
  /\ accessToken = NoAccessToken
  /\ callbacks = 0
  /\ location = Null
  /\ posts = [c \in Callers |-> 0]
  /\ lastExchange = NoExchange
  /\ atLoad = Loaded(EmptyStorage, FALSE)
  /\ resolved = Unresolved
  /\ signOut = "none"

\* the page is loaded again (a navigation assigned to window.location.href, a
\* return from the identity provider, or the user reloading): tasks in flight
\* are abandoned, durable state is kept
Reload ==
  /\ initPc # "mount"
  /\ atLoad' = Loaded(localStorage, FALSE)
  /\ FreshPage
  /\ UNCHANGED <<devFlag, localHost, localStorage, accounts>>

----------------------------------------------------------------------------
(* App: the mount effect that seeds a dev session *)

\* App's effect runs first (child effects run before the provider's)
AppMountEffect ==
  /\ appPc = "mount"
  /\ IF DEV_AUTH /\ getToken(localStorage) = Null
     THEN /\ appPc' = "devLogin"
          /\ posts' = [posts EXCEPT !["app"] = @ + 1]
     ELSE /\ appPc' = "done"
          /\ UNCHANGED posts
  /\ UNCHANGED <<persistent, ctx, initPc, rerun, loginPc, logoutPc, callbacks>>
  /\ location' = Null
  /\ atLoad' = atLoadKept
  /\ UNCHANGED tokenPc
  /\ accessToken' = NoAccessToken
  /\ signOut' = "none"
  /\ lastExchange' = NoExchange
  /\ resolved' = Unresolved

\* devLogin called by App returns.  The effects of one commit run back to
\* back, so the provider's mount effect has started by then
AppDevLoginReturn(resp) ==
  /\ appPc = "devLogin"
  /\ initPc # "mount"
  /\ LET r == devLogin(localStorage, ctx, resp)
     IN /\ localStorage' = r.ls
        /\ ctx' = r.ctx
        /\ lastExchange' = Exchanged("dev", resp, r.ls, r.success, r.notified, r.ctx)
  /\ appPc' = "done"
  /\ UNCHANGED <<devFlag, localHost, accounts>>
  /\ UNCHANGED <<initPc, rerun, loginPc, logoutPc, callbacks>>
  /\ location' = Null
  /\ UNCHANGED posts
  /\ atLoad' = atLoadKept
  /\ UNCHANGED tokenPc
  /\ accessToken' = NoAccessToken
  /\ signOut' = "none"
  /\ resolved' = Unresolved

----------------------------------------------------------------------------
(* AuthProvider: startup resolution (initializeMsal) *)

\* mutant of RestoreSession: the stored user is not put into the session state
RestoreSession_NoUser(ls, c) == [c EXCEPT !.isAuthenticated = TRUE]

\* lines 302-306 and 354-356: a stored session is trusted as it is
RestoreSession(ls, c) == [c EXCEPT !.userData = getUser(ls), !.isAuthenticated = TRUE]

\* mutant of Finally: the finally block is missing
Finally_Missing(c) == c

\* the finally block of initializeMsal and of login
Finally(c) == [c EXCEPT !.loading = FALSE]

\* the catch block of initializeMsal
InitFailed(c) == [c EXCEPT !.error = ErrInit]

\* the mount effect calls initializeMsal: up to the first await
InitializeMsal ==
  /\ initPc = "mount"
  /\ appPc # "mount"
  /\ IF isDevAuthEnabled
     THEN IF getStoredSession(localStorage) /\ getUser(localStorage) # Null
          THEN /\ ctx' = Finally(RestoreSession(localStorage, ctx))
               /\ initPc' = "done"
               /\ resolved' = Resolution("restore", ctx')
               /\ UNCHANGED posts
          ELSE /\ posts' = [posts EXCEPT !["startup"] = @ + 1]
               /\ initPc' = "devLogin"
               /\ resolved' = Unresolved
               /\ UNCHANGED ctx
     ELSE /\ initPc' = "initialize"
          /\ resolved' = Unresolved
          /\ UNCHANGED <<ctx, posts>>
  /\ UNCHANGED <<persistent, rerun, appPc, loginPc, logoutPc, callbacks>>
  /\ location' = Null
  /\ atLoad' = atLoadKept
  /\ UNCHANGED tokenPc
  /\ accessToken' = NoAccessToken
  /\ signOut' = "none"
  /\ lastExchange' = NoExchange

\* mutant of DevLoginFailed: a failed dev exchange leaves no error
DevLoginFailed_Silent(c) == c

\* lines 320 and 463: setError('Development login failed')
DevLoginFailed(c) == [c EXCEPT !.error = ErrDevLogin]

\* lines 313-325: devLogin called by initializeMsal returns
StartupDevLoginReturn(resp) ==
  /\ initPc = "devLogin"
  /\ LET devResult == devLogin(localStorage, ctx, resp)
     IN /\ IF devResult.success
           THEN /\ ctx' = Finally([devResult.ctx EXCEPT !.userData = devResult.user, !.isAuthenticated = TRUE])
                /\ localStorage' = [devResult.ls EXCEPT ![METHOD_KEY] = "dev"]
           ELSE /\ ctx' = Finally(DevLoginFailed(devResult.ctx))
                /\ localStorage' = devResult.ls
        /\ lastExchange' = Exchanged("dev", resp, devResult.ls, devResult.success, devResult.notified, devResult.ctx)
  /\ initPc' = "done"
  /\ resolved' = Resolution("devExchange", ctx')
  /\ UNCHANGED <<devFlag, localHost, accounts>>
  /\ UNCHANGED <<rerun, appPc, loginPc, logoutPc, callbacks>>
  /\ location' = Null
  /\ UNCHANGED posts
  /\ atLoad' = atLoadKept
  /\ UNCHANGED tokenPc
  /\ accessToken' = NoAccessToken
  /\ signOut' = "none"

\* lines 331-344: msalApp.initialize() settles; on success the instance is
\* stored, the LOGIN_SUCCESS callback registered and handleRedirectPromise called
MsalInitializeReturn(ok) ==
  /\ initPc = "initialize"
  /\ IF ok
     THEN /\ ctx' = [ctx EXCEPT !.msalInstance = TRUE, !.msalInitialized = TRUE]
          /\ initPc' = "handleRedirect"
          /\ resolved' = Unresolved
     ELSE /\ ctx' = Finally(InitFailed(ctx))
          /\ initPc' = "done"
          /\ resolved' = Resolution("initError", ctx')
  /\ UNCHANGED <<persistent, rerun, appPc, loginPc, logoutPc, callbacks>>
  /\ location' = Null
  /\ UNCHANGED posts
  /\ atLoad' = atLoadKept
  /\ UNCHANGED tokenPc
  /\ accessToken' = NoAccessToken
  /\ signOut' = "none"
  /\ lastExchange' = NoExchange

\* what handleRedirectPromise can settle with: an account or an error only
\* when the page was loaded with the response of a redirect login
RedirectResults == IF atLoad.redirect THEN {"account", "none", "throw"} ELSE {"none"}

\* mutant of StartupSource: the first cached account is exchanged without
\* asking whether there is one
StartupSource_ExchangeAnyway(redirectAccount, ls, cached) ==
  IF redirectAccount THEN "exchangeRedirect"
  ELSE IF getStoredSession(ls) /\ getUser(ls) # Null THEN "restore"
  ELSE "exchangeAccount"

\* mutant of StartupSource: the stored session is consulted before the
\* redirect result
StartupSource_StoreFirst(redirectAccount, ls, cached) ==
  IF getStoredSession(ls) /\ getUser(ls) # Null THEN "restore"
  ELSE IF redirectAccount THEN "exchangeRedirect"
  ELSE IF cached THEN "exchangeAccount"
  ELSE "none"

\* lines 345-362: what startup resolution does once handleRedirectPromise has
\* settled without an error: exchange the redirect account, restore the
\* stored session, exchange the first cached account, or nothing
StartupSource(redirectAccount, ls, cached) ==
  IF redirectAccount THEN "exchangeRedirect"
  ELSE IF getStoredSession(ls) /\ getUser(ls) # Null THEN "restore"
  ELSE IF cached THEN "exchangeAccount"
  ELSE "none"

\* lines 344-368: handleRedirectPromise settles.  A login response makes the
\* client cache the account and emit LOGIN_SUCCESS, whose callback (lines
\* 336-341) starts an exchange of its own before line 346 starts one
HandleRedirectReturn(res) ==
  /\ initPc = "handleRedirect"
  /\ res \in RedirectResults
  /\ res = "account" => callbacks < MaxCallbacks
  /\ IF res = "account"
     THEN /\ accounts' = TRUE
          /\ callbacks' = callbacks + 1
     ELSE UNCHANGED <<accounts, callbacks>>
  /\ IF res = "throw"
     THEN /\ ctx' = Finally(InitFailed(ctx))
          /\ initPc' = "done"
          /\ resolved' = Resolution("redirectError", ctx')
          /\ UNCHANGED posts
     ELSE LET source == StartupSource(res = "account", localStorage, accounts)
          IN CASE source = "restore" ->
                    /\ ctx' = Finally(RestoreSession(localStorage, ctx))
                    /\ initPc' = "done"
                    /\ resolved' = Resolution("restore", ctx')
                    /\ UNCHANGED posts
               [] source = "none" ->
                    /\ ctx' = Finally(ctx)
                    /\ initPc' = "done"
                    /\ resolved' = Resolution("none", ctx')
                    /\ UNCHANGED posts
               [] OTHER ->
                    /\ posts' = [posts EXCEPT !["startup"] = @ + 1]
                    /\ initPc' = source
                    /\ resolved' = Unresolved
                    /\ UNCHANGED ctx
  /\ UNCHANGED <<devFlag, localHost, localStorage>>
  /\ UNCHANGED <<rerun, appPc, loginPc, logoutPc>>
  /\ location' = Null
  /\ atLoad' = atLoadKept
  /\ UNCHANGED tokenPc
  /\ accessToken' = NoAccessToken
  /\ signOut' = "none"
  /\ lastExchange' = NoExchange

\* lines 346-347 and 360: the exchange awaited by initializeMsal settles
StartupExchangeReturn(resp) ==
  /\ initPc \in {"exchangeRedirect", "exchangeAccount"}
  /\ LET r == exchangeTokenForJWT(localStorage, ctx, resp)
     IN /\ localStorage' = r.ls
        /\ ctx' = Finally(r.ctx)
        /\ location' = r.nav
        /\ lastExchange' = Exchanged("azure", resp, loginWithAzure(localStorage, resp).ls, r.success, r.notified, r.ctx)
  /\ initPc' = "done"
  /\ resolved' = Resolution(initPc, ctx')
  /\ UNCHANGED <<devFlag, localHost, accounts>>
  /\ UNCHANGED <<rerun, appPc, loginPc, logoutPc, callbacks>>
  /\ UNCHANGED posts
  /\ atLoad' = atLoadKept
  /\ UNCHANGED tokenPc
  /\ accessToken' = NoAccessToken
  /\ signOut' = "none"

\* lines 336-341: an exchange started by the LOGIN_SUCCESS callback settles
CallbackExchangeReturn(resp) ==
  /\ callbacks > 0
  /\ LET r == exchangeTokenForJWT(localStorage, ctx, resp)
     IN /\ localStorage' = r.ls
        /\ ctx' = r.ctx
        /\ location' = r.nav
        /\ lastExchange' = Exchanged("azure", resp, loginWithAzure(localStorage, resp).ls, r.success, r.notified, r.ctx)
  /\ callbacks' = callbacks - 1
  /\ UNCHANGED <<devFlag, localHost, accounts>>
  /\ UNCHANGED <<initPc, rerun, appPc, loginPc, logoutPc>>
  /\ UNCHANGED posts
  /\ atLoad' = atLoadKept
  /\ UNCHANGED tokenPc
  /\ accessToken' = NoAccessToken
  /\ signOut' = "none"
  /\ resolved' = Unresolved

\* lines 369-373: storing the instance gives initializeMsal a new identity, so
\* the effect calls it again; outside dev mode it returns at line 328 and its
\* finally block runs
InitializeMsalRerun ==
  /\ ~rerun
  /\ ctx.msalInstance \/ ctx.msalInitialized
  /\ ~isDevAuthEnabled
  /\ rerun' = TRUE
  /\ ctx' = Finally(ctx)
  /\ UNCHANGED <<persistent, initPc, appPc, loginPc, logoutPc, callbacks>>
  /\ location' = Null
  /\ UNCHANGED posts
  /\ atLoad' = atLoadKept
  /\ UNCHANGED tokenPc
  /\ accessToken' = NoAccessToken
  /\ signOut' = "none"
  /\ lastExchange' = NoExchange
  /\ resolved' = Unresolved

----------------------------------------------------------------------------
(* AuthProvider: login() *)

\* Errors loginPopup can throw.  falsy: the thrown value is falsy; message:
\* err.message ("" when absent); str: String(err)
TenantMismatch == [falsy |-> FALSE, message |-> "AADSTS50020: account does not exist in tenant", str |-> "Error"]
CancelledInTenant == [falsy |-> FALSE, message |-> "user_cancelled: AADSTS50020", str |-> "Error"]
UserCancelled == [falsy |-> FALSE, message |-> "user_cancelled: User cancelled the flow", str |-> "Error"]
PopupClosed == [falsy |-> FALSE, message |-> "Popup window closed", str |-> "Error"]
OtherError == [falsy |-> FALSE, message |-> "interaction_in_progress", str |-> "Error"]
NoMessage == [falsy |-> FALSE, message |-> "", str |-> "[object Object]"]
FalsyError == [falsy |-> TRUE, message |-> "", str |-> ""]
PopupErrors == {TenantMismatch, CancelledInTenant, UserCancelled, PopupClosed, OtherError, NoMessage, FalsyError}

\* msg.includes(needle) over the messages above
Includes(msg, needle) ==
  CASE needle = "AADSTS50020" -> msg \in {TenantMismatch.message, CancelledInTenant.message}
    [] needle = "user_cancelled" -> msg \in {CancelledInTenant.message, UserCancelled.message}
    [] needle = "Popup window closed" -> msg = PopupClosed.message
    [] OTHER -> FALSE

TenantGuidance == "Account not found in tenant. Sign in with an account in the tenant or ask the tenant admin to invite your account as a guest. For local testing enable DEV_AUTH or use an account from the tenant."
RetryHint == "Sign-in was cancelled or blocked by the browser. Try using the \"Sign in\" button again (redirect) or enable Dev sign-in for local testing."

\* lines 427-441; the err.error field is absent from the errors above
getFriendlyAuthError(err) ==
  LET msg == IF err.falsy THEN "" ELSE IF err.message # "" THEN err.message ELSE err.str
  IN IF Includes(msg, "AADSTS50020") THEN TenantGuidance
     ELSE IF Includes(msg, "user_cancelled") \/ Includes(msg, "Popup window closed") THEN RetryHint
     ELSE IF msg # "" THEN msg
     ELSE Null

\* lines 516-517: friendly || (popupErr?.message || "Login failed.")
LoginError(err) ==
  IF getFriendlyAuthError(err) # Null THEN getFriendlyAuthError(err)
  ELSE IF ~err.falsy /\ err.message # "" THEN err.message
  ELSE ErrLoginFailed

\* mutant of LoginFlow: the redirect flow is started whatever the cache holds
LoginFlow_AlwaysRedirect(cached) == "loginRedirect"

\* lines 491-499: a cached account is exchanged, otherwise loginRedirect
LoginFlow(cached) == IF cached THEN "exchange" ELSE "loginRedirect"

\* login() is called: up to the first await.  Its caller is the Login page,
\* which App renders only while loading is false and neither isAuthenticated
\* nor DEV_AUTH holds (App.tsx 67-86).  The instance and its initialized flag
\* are set together, so the wait of lines 476-486 is never entered
LoginCall ==
  /\ loginPc = "idle"
  /\ initPc # "mount"
  /\ ~ctx.loading
  /\ ~ctx.isAuthenticated /\ ~DEV_AUTH
  /\ IF isDevAuthEnabled
     THEN /\ ctx' = [ctx EXCEPT !.loading = TRUE, !.error = Null]
          /\ loginPc' = "devLogin"
     ELSE IF ~ctx.msalInstance
          THEN /\ ctx' = Finally([ctx EXCEPT !.error = ErrNotInitialized])
               /\ loginPc' = "idle"
          ELSE /\ ctx' = [ctx EXCEPT !.error = Null, !.loading = TRUE]
               /\ loginPc' = LoginFlow(accounts)
  /\ UNCHANGED <<persistent, initPc, rerun, appPc, logoutPc, callbacks>>
  /\ location' = Null
  /\ UNCHANGED posts
  /\ atLoad' = atLoadKept
  /\ UNCHANGED tokenPc
  /\ accessToken' = NoAccessToken
  /\ signOut' = "none"
  /\ lastExchange' = NoExchange
  /\ resolved' = Unresolved

\* lines 453-467: devLogin called by login() returns
LoginDevLoginReturn(resp) ==
  /\ loginPc = "devLogin"
  /\ LET result == devLogin(localStorage, ctx, resp)
     IN /\ IF result.success
           THEN /\ ctx' = Finally([result.ctx EXCEPT !.userData = result.user, !.isAuthenticated = TRUE, !.error = Null])
                /\ localStorage' = [result.ls EXCEPT ![METHOD_KEY] = "dev"]
                /\ location' = "/"
           ELSE /\ ctx' = Finally(DevLoginFailed(result.ctx))
                /\ localStorage' = result.ls
                /\ location' = Null
        /\ lastExchange' = Exchanged("dev", resp, result.ls, result.success, result.notified, result.ctx)
  /\ loginPc' = "idle"
  /\ UNCHANGED <<devFlag, localHost, accounts>>
  /\ UNCHANGED <<initPc, rerun, appPc, logoutPc, callbacks>>
  /\ UNCHANGED posts
  /\ atLoad' = atLoadKept
  /\ UNCHANGED tokenPc
  /\ accessToken' = NoAccessToken
  /\ signOut' = "none"
  /\ resolved' = Unresolved

\* lines 493-494 and 512: the exchange awaited by login() settles
LoginExchangeReturn(resp) ==
  /\ loginPc = "exchange"
  /\ LET r == exchangeTokenForJWT(localStorage, ctx, resp)
     IN /\ localStorage' = r.ls
        /\ ctx' = Finally(r.ctx)
        /\ location' = r.nav
        /\ lastExchange' = Exchanged("azure", resp, loginWithAzure(localStorage, resp).ls, r.success, r.notified, r.ctx)
  /\ loginPc' = "idle"
  /\ UNCHANGED <<devFlag, localHost, accounts>>
  /\ UNCHANGED <<initPc, rerun, appPc, logoutPc, callbacks>>
  /\ UNCHANGED posts
  /\ atLoad' = atLoadKept
  /\ UNCHANGED tokenPc
  /\ accessToken' = NoAccessToken
  /\ signOut' = "none"
  /\ resolved' = Unresolved

\* lines 498-511: loginRedirect settles.  Started, the browser leaves for the
\* identity provider and comes back with its response: the page is loaded
\* anew.  Thrown, login() falls back to the popup
LoginRedirectReturn(ok) ==
  /\ loginPc = "loginRedirect"
  /\ IF ok
     THEN /\ atLoad' = Loaded(localStorage, TRUE)
          /\ FreshPage
     ELSE /\ loginPc' = "loginPopup"
          /\ location' = Null
          /\ UNCHANGED <<ctx, initPc, rerun, appPc, logoutPc, callbacks>>
          /\ UNCHANGED posts
          /\ atLoad' = atLoadKept
          /\ UNCHANGED tokenPc
          /\ accessToken' = NoAccessToken
          /\ signOut' = "none"
          /\ lastExchange' = NoExchange
          /\ resolved' = Unresolved
  /\ UNCHANGED <<devFlag, localHost, localStorage, accounts>>

\* what loginPopup can settle with
PopupResults == {[kind |-> "account", err |-> FalsyError], [kind |-> "noAccount", err |-> FalsyError]} \cup {[kind |-> "error", err |-> e] : e \in PopupErrors}

\* lines 508-518: loginPopup settles with an account (the client caches it
\* and emits LOGIN_SUCCESS), without one, or with an error
LoginPopupReturn(res) ==
  /\ loginPc = "loginPopup"
  /\ CASE res.kind = "account" ->
            /\ callbacks < MaxCallbacks
            /\ accounts' = TRUE
            /\ callbacks' = callbacks + 1
            /\ loginPc' = "exchange"
            /\ UNCHANGED ctx
       [] res.kind = "noAccount" ->
            /\ ctx' = Finally([ctx EXCEPT !.error = ErrNoAccount])
            /\ loginPc' = "idle"
            /\ UNCHANGED <<accounts, callbacks>>
       [] res.kind = "error" ->
            /\ ctx' = Finally([ctx EXCEPT !.error = LoginError(res.err)])
            /\ loginPc' = "idle"
            /\ UNCHANGED <<accounts, callbacks>>
  /\ UNCHANGED <<devFlag, localHost, localStorage>>
  /\ UNCHANGED <<initPc, rerun, appPc, logoutPc>>
  /\ location' = Null
  /\ UNCHANGED posts
  /\ atLoad' = atLoadKept
  /\ UNCHANGED tokenPc
  /\ accessToken' = NoAccessToken
  /\ signOut' = "none"
  /\ lastExchange' = NoExchange
  /\ resolved' = Unresolved

----------------------------------------------------------------------------
(* AuthProvider: logout() *)

\* mutant of SignedOut: the in-memory session is left as it was
SignedOut_Kept(c) == c

\* lines 533-534: setIsAuthenticated(false); setUserData(null)
SignedOut(c) == [c EXCEPT !.isAuthenticated = FALSE, !.userData = Null]

\* mutant of SignsOutOfProvider: the provider sign-out is always invoked
SignsOutOfProvider_Always(method, c) == TRUE

\* line 536: method === "msal" && msalInstance
SignsOutOfProvider(method, c) == method = "msal" /\ c.msalInstance

\* lines 532-541: logout() is called: up to the await of logoutPopup, or to
\* the end when there is no provider sign-out.  Its callers are the views
\* behind the protected route (App.tsx 67-90)
LogoutCall ==
  /\ logoutPc = "idle"
  /\ initPc # "mount"
  /\ ~ctx.loading
  /\ ctx.isAuthenticated \/ DEV_AUTH
  /\ LET method == localStorage[METHOD_KEY]
     IN /\ localStorage' = clearAuthData(localStorage)
        /\ ctx' = SignedOut(ctx)
        /\ IF SignsOutOfProvider(method, ctx)
           THEN /\ signOut' = "pending"
                /\ logoutPc' = "logoutPopup"
                /\ location' = Null
           ELSE /\ signOut' = "skipped"
                /\ location' = "/login"
                /\ logoutPc' = "idle"
  /\ UNCHANGED <<devFlag, localHost, accounts>>
  /\ UNCHANGED <<initPc, rerun, appPc, loginPc, callbacks>>
  /\ UNCHANGED posts
  /\ atLoad' = atLoadKept
  /\ UNCHANGED tokenPc
  /\ accessToken' = NoAccessToken
  /\ lastExchange' = NoExchange
  /\ resolved' = Unresolved

\* lines 537-546: logoutPopup settles; a rejection is logged and swallowed
LogoutPopupReturn(ok) ==
  /\ logoutPc = "logoutPopup"
  /\ accounts' = IF ok THEN FALSE ELSE accounts
  /\ signOut' = IF ok THEN "done" ELSE "rejected"
  /\ location' = "/login"
  /\ logoutPc' = "idle"
  /\ UNCHANGED <<devFlag, localHost, localStorage>>
  /\ UNCHANGED <<ctx, initPc, rerun, appPc, loginPc, callbacks>>
  /\ UNCHANGED posts
  /\ atLoad' = atLoadKept
  /\ UNCHANGED tokenPc
  /\ accessToken' = NoAccessToken
  /\ lastExchange' = NoExchange
  /\ resolved' = Unresolved

----------------------------------------------------------------------------
(* AuthProvider: getAccessToken() *)

\* lines 401-410: getAccessToken() is called: to its end, or to the await of
\* acquireTokenSilent.  Its callers are the views behind the protected route,
\* rendered while loading is false and isAuthenticated or DEV_AUTH holds
\* (App.tsx 67-90)
GetAccessTokenCall ==
  /\ tokenPc = "idle"
  /\ initPc # "mount"
  /\ ~ctx.loading
  /\ ctx.isAuthenticated \/ DEV_AUTH
  /\ IF isDevAuthEnabled
     THEN /\ accessToken' = Returned(getToken(localStorage), "none")
          /\ UNCHANGED tokenPc
     ELSE IF ~ctx.msalInstance \/ ~accounts
          THEN /\ accessToken' = Returned(Null, "none")
               /\ UNCHANGED tokenPc
          ELSE /\ tokenPc' = "silent"
               /\ accessToken' = NoAccessToken
  /\ UNCHANGED <<persistent, ctx, initPc, rerun, appPc, loginPc, logoutPc, callbacks>>
  /\ UNCHANGED posts
  /\ atLoad' = atLoadKept
  /\ lastExchange' = NoExchange
  /\ resolved' = Unresolved
  /\ signOut' = "none"
  /\ location' = Null

\* what acquireTokenSilent can settle with: a token, or one of two errors
SilentResults == {"ok", "interaction_required", "other_error"}

\* mutant of InteractionRequired: every error counts as 'interaction required'
InteractionRequired_Any(err) == TRUE

\* line 417: error instanceof InteractionRequiredAuthError
InteractionRequired(err) == err = "interaction_required"

\* lines 411-423: acquireTokenSilent settles
AcquireTokenSilentReturn(res) ==
  /\ tokenPc = "silent"
  /\ IF res = "ok"
     THEN /\ accessToken' = Returned(SilentToken, "ok")
          /\ tokenPc' = "idle"
     ELSE IF InteractionRequired(res)
          THEN /\ accessToken' = [NoAccessToken EXCEPT !.silent = res]
               /\ tokenPc' = "popup"
          ELSE /\ accessToken' = Returned(Null, res)
               /\ tokenPc' = "idle"
  /\ UNCHANGED <<persistent, ctx, initPc, rerun, appPc, loginPc, logoutPc, callbacks>>
  /\ UNCHANGED posts
  /\ atLoad' = atLoadKept
  /\ lastExchange' = NoExchange
  /\ resolved' = Unresolved
  /\ signOut' = "none"
  /\ location' = Null

\* lines 418-419: acquireTokenPopup, awaited inside the catch block, settles;
\* its rejection is caught by nothing
AcquireTokenPopupReturn(ok) ==
  /\ tokenPc = "popup"
  /\ accessToken' = IF ok THEN Returned(PopupToken, "none") ELSE Threw
  /\ tokenPc' = "idle"
  /\ UNCHANGED <<persistent, ctx, initPc, rerun, appPc, loginPc, logoutPc, callbacks>>
  /\ UNCHANGED posts
  /\ atLoad' = atLoadKept
  /\ lastExchange' = NoExchange
  /\ resolved' = Unresolved
  /\ signOut' = "none"
  /\ location' = Null

----------------------------------------------------------------------------
(* Specification *)

Next ==
  \/ Reload
  \/ AppMountEffect
  \/ \E resp \in Responses : AppDevLoginReturn(resp)
  \/ InitializeMsal
  \/ \E resp \in Responses : StartupDevLoginReturn(resp)
  \/ \E ok \in BOOLEAN : MsalInitializeReturn(ok)
  \/ \E res \in {"account", "none", "throw"} : HandleRedirectReturn(res)
  \/ \E resp \in Responses : StartupExchangeReturn(resp)
  \/ \E resp \in Responses : CallbackExchangeReturn(resp)
  \/ InitializeMsalRerun
  \/ LoginCall
  \/ \E resp \in Responses : LoginDevLoginReturn(resp)
  \/ \E resp \in Responses : LoginExchangeReturn(resp)
  \/ \E ok \in BOOLEAN : LoginRedirectReturn(ok)
  \/ \E res \in PopupResults : LoginPopupReturn(res)
  \/ LogoutCall
  \/ \E ok \in BOOLEAN : LogoutPopupReturn(ok)
  \/ GetAccessTokenCall
  \/ \E res \in SilentResults : AcquireTokenSilentReturn(res)
  \/ \E ok \in BOOLEAN : AcquireTokenPopupReturn(ok)

Spec == Init /\ [][Next]_vars

\* The steps of startup resolution: React runs the mount effects, and every
\* awaited call settles
StartupStep ==
  \/ AppMountEffect
  \/ InitializeMsal
  \/ \E resp \in Responses : StartupDevLoginReturn(resp)
  \/ \E ok \in BOOLEAN : MsalInitializeReturn(ok)
  \/ \E res \in {"account", "none", "throw"} : HandleRedirectReturn(res)
  \/ \E resp \in Responses : StartupExchangeReturn(resp)

\* The steps of login() after the call: every awaited call settles
LoginStep ==
  \/ \E resp \in Responses : LoginDevLoginReturn(resp)
  \/ \E resp \in Responses : LoginExchangeReturn(resp)
  \/ \E ok \in BOOLEAN : LoginRedirectReturn(ok)
  \/ \E res \in PopupResults : LoginPopupReturn(res)

\* Every awaited external call eventually returns or throws
LiveSpec == Spec /\ WF_vars(StartupStep) /\ WF_vars(LoginStep)

----------------------------------------------------------------------------
(* Claims *)

\* C1: whenever loading is false, isAuthenticated is true if and only if the
\* token store holds both a session token and a user record.
C1_AuthenticatedIffSession == ~ctx.loading => (ctx.isAuthenticated <=> HoldsSession(localStorage))

\* C2: the first step of logout() removes the token and the user record from
\* the store and sets isAuthenticated = false and userData = null, from every
\* starting state; the step that follows a settled provider sign-out, resolved
\* or rejected, changes neither the store nor the session state.
C2_LogoutClearsSession ==
  [][/\ signOut' \in {"pending", "skipped"} =>
          /\ getToken(localStorage') = Null
          /\ localStorage'[USER_KEY] = Null
          /\ ~ctx'.isAuthenticated
          /\ ctx'.userData = Null
     /\ signOut' \in {"done", "rejected"} =>
          /\ localStorage' = localStorage
          /\ ctx' = ctx]_vars

\* C2 witness: provider sign-out has rejected and the store is empty, the
\* session state unauthenticated.
C2_Witness == signOut = "rejected" /\ getToken(localStorage) = Null /\ localStorage[USER_KEY] = Null /\ ~ctx.isAuthenticated /\ ctx.userData = Null

\* C3: every run of startup resolution and every call of login() ends, and
\* the step that ends it leaves loading = false, on every branch; the only
\* runs that do not end are those abandoned by a new page load.  The first
\* conjunct is the terminal steps (of startup, of login() after an await, of
\* login() returning at once), the second that no run stays in flight.
C3_LoadingEndsFalse ==
  /\ [][/\ (initPc # "done" /\ initPc' = "done") => ~ctx'.loading
        /\ (loginPc # "idle" /\ loginPc' = "idle" /\ initPc' # "mount") => ~ctx'.loading
        /\ (ctx'.error = ErrNotInitialized /\ ctx.error # ErrNotInitialized) => ~ctx'.loading]_vars
  /\ []<>(initPc = "mount" \/ (initPc = "done" /\ loginPc = "idle" /\ ~ctx.loading))

\* C3 witness: startup resolution has ended
\* and a login() has ended on the popup-failure path; loading is false.
C3_Witness == initPc = "done" /\ loginPc = "idle" /\ ctx.error = RetryHint /\ ~ctx.loading

\* C4: loading stays true until startup resolution has ended.
C4_LoadingUntilResolved == initPc # "done" => ctx.loading

\* C5 as stated: a startup sequence that begins with a token and a user record
\* in the store ends by restoring them (authenticated, userData = the stored
\* record) and has sent no exchange request.
C5_StoredSessionRestored ==
  (resolved.path # "pending" /\ atLoad.token /\ atLoad.user # Null) =>
    /\ resolved.path = "restore"
    /\ resolved.isAuthenticated
    /\ resolved.userData = atLoad.user
    /\ posts["startup"] = 0
    /\ posts["app"] = 0

\* C5 amended: in bypass mode a startup that begins with a session in the
\* store ends by restoring it and sends no exchange request; in provider mode
\* the same holds from the moment redirect handling settles with neither an
\* account nor an error, for the session the store holds at that moment.
C5_RestoredWhenReached ==
  [][/\ (isDevAuthEnabled /\ resolved'.path # "pending" /\ atLoad.token /\ atLoad.user # Null) =>
          /\ resolved'.path = "restore"
          /\ ctx'.isAuthenticated
          /\ ctx'.userData = atLoad.user
          /\ ~ctx'.loading
          /\ posts'["startup"] = 0
          /\ posts'["app"] = 0
     /\ (/\ ~isDevAuthEnabled
         /\ initPc = "handleRedirect"
         /\ (initPc' = "exchangeAccount" \/ resolved'.path \in {"restore", "none"})
         /\ HoldsSession(localStorage)) =>
          /\ resolved'.path = "restore"
          /\ ctx'.isAuthenticated
          /\ ctx'.userData = getUser(localStorage)
          /\ ~ctx'.loading
          /\ posts' = posts
          /\ posts'["startup"] = 0]_vars

\* C5 witness: provider mode, the page loaded with a session in the store and
\* startup has just restored it.
C5_Witness == ~isDevAuthEnabled /\ resolved.path = "restore" /\ atLoad.token /\ atLoad.user # Null /\ ctx.isAuthenticated /\ ctx.userData = atLoad.user /\ posts["startup"] = 0

\* C6: a startup with developer bypass enabled and no session in the store
\* sends exactly one dev exchange request, and ends authenticated when the
\* request succeeds, unauthenticated with an error when it fails.
C6_OneDevExchange ==
  (resolved.path # "pending" /\ isDevAuthEnabled /\ ~(atLoad.token /\ atLoad.user # Null)) =>
    /\ posts["startup"] + posts["app"] = 1
    /\ lastExchange.success => resolved.isAuthenticated
    /\ ~lastExchange.success => (~resolved.isAuthenticated /\ resolved.error # Null)

\* C7: when logout() has completed, the token, the user record and the
\* auth-method tag are all absent from storage.
C7_LogoutClearsAllKeys == signOut \in {"skipped", "done", "rejected"} => \A k \in Keys : localStorage[k] = Null

\* C8: an exchange call that returns successfully has written the token and
\* the user to the store and has emitted one 'auth changed' notification.
C8_ExchangeStoresAndNotifies == lastExchange.success => (lastExchange.stored /\ lastExchange.notified = 1)

\* C9: an exchange call that returns a failure, dev or provider, on a network
\* error, a success:false body or a body without a token, leaves every key of
\* the store as it was before the call returned.
C9_FailedExchangeKeepsStore ==
  [][(lastExchange'.endpoint # "none" /\ ~lastExchange'.success) => localStorage' = localStorage]_vars

\* C9 witness: a provider exchange has just failed while the store held a
\* session, and the session is still there.
C9_Witness == lastExchange.endpoint = "azure" /\ ~lastExchange.success /\ HoldsSession(localStorage)

\* C10: the store holds a token exactly when it holds a readable user record.
C10_TokenAndUserPaired == (getToken(localStorage) # Null) <=> (getUser(localStorage) # Null)

\* C11: whenever the 'auth changed' listener has run, what it set comes from
\* the store as it is then: isAuthenticated is true exactly when the store
\* holds a token and a readable user record, and userData is the stored user
\* record, null when there is none (whatever user the event carried).
C11_ListenerReadsStore ==
  lastExchange.heard.ran =>
    /\ lastExchange.heard.isAuthenticated <=> HoldsSession(localStorage)
    /\ lastExchange.heard.userData = getUser(localStorage)

\* C11 witness: a dev exchange has just notified the listener, which found the
\* backend's user record in the store.
C11_Witness == lastExchange.heard.ran /\ lastExchange.heard.isAuthenticated /\ lastExchange.heard.userData = BackendUser /\ getUser(localStorage) = BackendUser

\* C12: in provider mode a login() called while the identity provider client
\* is not initialized waits before it gives up: the 'not initialized' error is
\* set only by a login() that has been waiting, never by the call itself.
C12_LoginWaitsForInit ==
  [][(ctx'.error = ErrNotInitialized /\ ctx.error # ErrNotInitialized) => loginPc # "idle"]_vars

\* C13: while developer bypass is enabled no identity-provider operation is
\* ever in flight or has been performed: no client is constructed or
\* initialized, no redirect handling, interactive login, silent or popup token
\* acquisition and no provider sign-out; and a getAccessToken() that returns
\* returns exactly the token in the store.
C13_BypassNeverUsesProvider ==
  isDevAuthEnabled =>
    /\ ~ctx.msalInstance /\ ~ctx.msalInitialized
    /\ initPc \in {"mount", "devLogin", "done"}
    /\ loginPc \in {"idle", "devLogin"}
    /\ logoutPc = "idle" /\ signOut \in {"none", "skipped"}
    /\ tokenPc = "idle" /\ accessToken.outcome # "threw" /\ accessToken.silent = "none"
    /\ callbacks = 0
    /\ accessToken.outcome = "returned" => accessToken.token = getToken(localStorage)

\* C13 witness: in bypass mode getAccessToken() has just returned the stored
\* session token.
C13_Witness ==
  /\ isDevAuthEnabled
  /\ accessToken.outcome = "returned"
  /\ accessToken.token # Null
  /\ accessToken.token = getToken(localStorage)

\* C14: no controller operation hands a provider or network failure to its
\* caller: getAccessToken() never ends by throwing (rejecting its promise).
C14_NoFailurePropagates == accessToken.outcome # "threw"

\* C15: logout() clears the store and the in-memory session in the step that
\* starts it, before any provider sign-out; the provider sign-out is invoked
\* only when the method tag read at the start was "msal"; and the navigation
\* to /login is the last thing logout() does, whether the provider sign-out
\* succeeded, rejected or was skipped.
C15_LogoutOrder ==
  [][/\ signOut' \in {"pending", "skipped"} =>
          /\ logoutPc = "idle"
          /\ getToken(localStorage') = Null /\ localStorage'[USER_KEY] = Null
          /\ ~ctx'.isAuthenticated /\ ctx'.userData = Null
     /\ signOut' = "pending" =>
          /\ localStorage[METHOD_KEY] = "msal"
          /\ logoutPc' = "logoutPopup"
          /\ location' = Null
     /\ signOut' = "skipped" =>
          /\ logoutPc' = "idle"
          /\ location' = "/login"
     /\ signOut' \in {"done", "rejected"} =>
          /\ logoutPc = "logoutPopup" /\ logoutPc' = "idle"
          /\ location' = "/login"
          /\ localStorage' = localStorage /\ ctx' = ctx
     /\ (logoutPc # "idle" /\ logoutPc' = "idle" /\ initPc' # "mount") => location' = "/login"
     /\ location' = "/login" => signOut' \in {"skipped", "done", "rejected"}]_vars

\* C15 witness: the provider sign-out has just rejected and logout() has
\* navigated to /login, with the store and the session cleared.
C15_Witness ==
  /\ signOut = "rejected"
  /\ location = "/login"
  /\ getToken(localStorage) = Null /\ ~ctx.isAuthenticated

\* C16: in provider mode getAccessToken() with a cached account starts with
\* the silent acquisition; the popup acquisition is opened only after the
\* silent one failed with 'interaction required', and its token is what
\* getAccessToken() then returns; after any other silent failure
\* getAccessToken() returns nothing and opens no popup.
C16_SilentThenPopup ==
  [][/\ (tokenPc = "idle" /\ tokenPc' # "idle") =>
          /\ tokenPc' = "silent"
          /\ ~isDevAuthEnabled /\ ctx.msalInstance /\ accounts
     /\ (tokenPc # "popup" /\ tokenPc' = "popup") =>
          /\ tokenPc = "silent"
          /\ accessToken'.silent = "interaction_required"
          /\ accessToken'.outcome = "none"
     /\ (tokenPc = "silent" /\ accessToken'.silent = "other_error") =>
          /\ accessToken' = Returned(Null, "other_error")
          /\ tokenPc' = "idle"
     /\ (tokenPc = "silent" /\ accessToken'.silent = "ok") =>
          /\ accessToken' = Returned(SilentToken, "ok")
          /\ tokenPc' = "idle"
     /\ (tokenPc = "popup" /\ accessToken'.outcome = "returned") =>
          /\ accessToken'.token = PopupToken
          /\ tokenPc' = "idle"]_vars

\* C16 witness: after 'interaction required' the popup acquisition has settled
\* and getAccessToken() has returned the popup's token.
C16_Witness == accessToken = Returned(PopupToken, "none") /\ ~isDevAuthEnabled /\ accounts

\* C17: when login() runs in bypass mode from an unauthenticated state and
\* the dev exchange fails, login() ends with isAuthenticated false, loading
\* false and the error "Development login failed", writes nothing to the
\* store and does not navigate to the home view.
C17_FailedDevLogin ==
  [][(/\ loginPc = "devLogin" /\ loginPc' = "idle"
      /\ lastExchange'.endpoint = "dev" /\ ~lastExchange'.success
      /\ ~ctx.isAuthenticated) =>
        /\ ~ctx'.isAuthenticated
        /\ ~ctx'.loading
        /\ ctx'.error = ErrDevLogin
        /\ localStorage' = localStorage
        /\ location' = Null]_vars

\* C17 witness: login() has just ended on a failed dev exchange.
C17_Witness ==
  /\ isDevAuthEnabled
  /\ loginPc = "idle" /\ initPc = "done" /\ resolved = Unresolved
  /\ lastExchange.endpoint = "dev" /\ ~lastExchange.success
  /\ ctx.error = ErrDevLogin /\ ~ctx.isAuthenticated /\ ~ctx.loading

\* C18 as stated: with bypass disabled, a page loaded without a redirect
\* response, no session in the store and no cached provider account,
\* startup resolution ends with isAuthenticated false, userData null, error
\* null and loading false, and has made no backend exchange call.
C18_NoSourceEndsUnauthenticated ==
  (/\ resolved.path # "pending"
   /\ ~isDevAuthEnabled
   /\ ~atLoad.redirect /\ ~HoldsSession(localStorage)
   /\ ~accounts) =>
     /\ ~resolved.isAuthenticated /\ resolved.userData = Null
     /\ resolved.error = Null
     /\ ~resolved.loading
     /\ posts["startup"] = 0

\* C18 amended: in that situation the step that ends the provider client's
\* initialization with a failure, or the redirect handling without one, ends
\* startup resolution: it sets loading false, has made and makes no backend
\* exchange call, sets the initialization error when the client failed to
\* initialize, and changes nothing else of the session state; when the
\* loading indicator was up from the page load until that step (no login() or
\* logout() could run meanwhile) the result is isAuthenticated false, userData
\* null and, the client initialized, error null.
C18_NoSourceUnlessInitFails ==
  [][(/\ \/ initPc = "initialize" /\ initPc' \notin {"initialize", "handleRedirect", "mount"}
         \/ initPc = "handleRedirect" /\ initPc' \notin {"handleRedirect", "mount"}
      /\ ~isDevAuthEnabled
      /\ ~atLoad.redirect /\ ~HoldsSession(localStorage)
      /\ ~accounts) =>
        /\ initPc' = "done"
        /\ resolved'.path = (IF initPc = "initialize" THEN "initError" ELSE "none")
        /\ ~ctx'.loading
        /\ posts' = posts /\ posts["startup"] = 0
        /\ ctx'.isAuthenticated = ctx.isAuthenticated /\ ctx'.userData = ctx.userData
        /\ ctx'.error = (IF initPc = "initialize" THEN ErrInit ELSE ctx.error)
        /\ ~rerun => (~ctx'.isAuthenticated /\ ctx'.userData = Null /\ ctx.error = Null)]_vars

\* C18 witness: provider-mode startup has just resolved with nothing to go on,
\* the client initialized.
C18_Witness ==
  /\ resolved.path = "none"
  /\ ~isDevAuthEnabled
  /\ ~atLoad.redirect /\ ~HoldsSession(localStorage) /\ ~accounts
  /\ ~rerun
  /\ ~ctx.isAuthenticated /\ ctx.userData = Null /\ ctx.error = Null /\ ~ctx.loading
  /\ posts["startup"] = 0

\* C19: token store round trip, from every store the program reaches: for
\* every token t and user record u, setToken(t) and setUser(u) followed by
\* getToken() and getUser() give t and u back, and clearAuthData() followed
\* by getToken() and getUser() gives no token and no user.
C19_StoreRoundTrip ==
  /\ \A t \in Tokens, u \in Users :
       LET stored == setUser(setToken(localStorage, t), u)
       IN /\ getToken(stored) = t
          /\ getUser(stored) = u
          /\ getToken(clearAuthData(stored)) = Null
          /\ getUser(clearAuthData(stored)) = Null
  /\ getToken(clearAuthData(localStorage)) = Null
  /\ getUser(clearAuthData(localStorage)) = Null

\* C19 witness: an exchange has just stored a token and a user record, and
\* both read back.
C19_Witness ==
  /\ lastExchange.stored
  /\ getToken(localStorage) \in Tokens
  /\ getUser(localStorage) \in Users

\* C20: provider-mode startup resolution, once redirect handling has settled
\* without an error, takes its sources in strict precedence: a redirect
\* result carrying an account is exchanged first; otherwise a stored session
\* is restored without an exchange; otherwise the cached provider account is
\* exchanged; otherwise it ends unauthenticated.  The startup algorithm itself
\* starts at most one exchange per page load.
C20_StartupPrecedence ==
  /\ [][(/\ initPc = "handleRedirect" /\ initPc' \notin {"handleRedirect", "mount"}
         /\ resolved'.path # "redirectError") =>
          LET redirectAccount == callbacks' # callbacks
              storedSession == HoldsSession(localStorage)
          IN /\ redirectAccount => atLoad.redirect
             /\ initPc' = (IF redirectAccount THEN "exchangeRedirect"
                           ELSE IF storedSession THEN "done"
                           ELSE IF accounts THEN "exchangeAccount"
                           ELSE "done")
             /\ resolved'.path = (IF redirectAccount THEN "pending"
                                  ELSE IF storedSession THEN "restore"
                                  ELSE IF accounts THEN "pending"
                                  ELSE "none")
             /\ posts'["startup"] = (IF initPc' = "done" THEN posts["startup"] ELSE posts["startup"] + 1)
             /\ resolved'.path = "restore" => (ctx'.isAuthenticated /\ ctx'.userData = getUser(localStorage))
             /\ resolved'.path = "none" => (ctx'.isAuthenticated = ctx.isAuthenticated /\ ctx'.userData = ctx.userData)]_vars
  /\ [](posts["startup"] <= 1)

\* C20 witness: a redirect result carrying an account is being exchanged by
\* startup although the store holds a session.
C20_Witness ==
  /\ initPc = "exchangeRedirect"
  /\ HoldsSession(localStorage)
  /\ posts["startup"] = 1

\* C21: provider-mode login() with an initialized client exchanges a cached
\* account without starting the redirect or the popup flow; without a cached
\* account it starts the redirect flow, starts the popup flow only after the
\* redirect attempt threw, and exchanges the account the popup returns.
C21_LoginFlowOrder ==
  [][/\ (loginPc = "idle" /\ loginPc' \notin {"idle", "devLogin"}) =>
          /\ ~isDevAuthEnabled /\ ctx.msalInstance /\ ctx.msalInitialized
          /\ loginPc' = (IF accounts THEN "exchange" ELSE "loginRedirect")
     /\ (loginPc # "loginRedirect" /\ loginPc' = "loginRedirect") =>
          (loginPc = "idle" /\ ~accounts)
     /\ (loginPc # "loginPopup" /\ loginPc' = "loginPopup") =>
          loginPc = "loginRedirect"
     /\ (loginPc # "exchange" /\ loginPc' = "exchange") =>
          \/ loginPc = "idle" /\ accounts
          \/ loginPc = "loginPopup" /\ accounts' /\ callbacks' = callbacks + 1
     /\ (loginPc = "loginPopup" /\ callbacks' = callbacks + 1 /\ initPc' = initPc) =>
          loginPc' = "exchange"
     /\ loginPc = "exchange" => loginPc' \in {"exchange", "idle"}]_vars

\* C21 witness: after the redirect attempt threw, the popup has returned an
\* account and login() is exchanging it.
C21_Witness ==
  /\ loginPc = "exchange"
  /\ callbacks > 0 /\ accounts
  /\ ~isDevAuthEnabled /\ ctx.loading

\* C22: after a failed popup login the error field holds one of the messages
\* of the classification: the tenant-mismatch guidance, the retry hint, the
\* raw message of a provider error, or "Login failed." (or the notice that no
\* account came back); it is never null.
C22_ErrorClassified ==
  [][(loginPc = "loginPopup" /\ loginPc' = "idle" /\ initPc' # "mount") =>
        /\ ctx'.error # Null
        /\ ctx'.error \in {TenantGuidance, RetryHint, ErrLoginFailed, ErrNoAccount}
                            \cup {e.message : e \in {x \in PopupErrors : x.message # ""}}]_vars

\* C23: while logout() is suspended in the provider sign-out, after it has
\* cleared the store, the store holds no session token.
C23_StoreStaysEmpty == logoutPc = "logoutPopup" => getToken(localStorage) = Null

\* C24: whenever the store holds a session, the persisted auth-method tag
\* names the method by which sessions are established in this deployment:
\* "dev" with bypass enabled, "msal" otherwise.
C24_TagNamesMethod ==
  HoldsSession(localStorage) =>
    localStorage[METHOD_KEY] = (IF isDevAuthEnabled THEN "dev" ELSE "msal")

\* C25: the step that receives a provider sign-in (a redirect result or a
\* popup result carrying an account) starts one backend exchange: when the
\* login-success callback starts one, the direct handling starts none.
C25_OneExchangePerSignIn ==
  [][callbacks' = callbacks + 1 =>
        /\ ~(loginPc # "exchange" /\ loginPc' = "exchange")
        /\ ~(initPc # "exchangeRedirect" /\ initPc' = "exchangeRedirect")]_vars

\* C26: in every state isAuthenticated is true exactly when userData is a user
\* record (neither null nor absent).
C26_AuthenticatedIffUserData ==
  ctx.isAuthenticated <=> ctx.userData \notin {Null, Undefined}

====
